---- MODULE Spec2Model ----
(***************************************************************************)
(* Device connectivity and lifecycle core of the four firmware sketches    *)
(* (arduino-uno-gateway, esp32-sensor-node, esp32-smart-light,             *)
(* esp8266-switch): transport and MQTT session handling, inbound message   *)
(* dispatch, command handling against persisted device state, periodic     *)
(* tasks and the OTA job, as one state machine per device type.            *)
(***************************************************************************)
EXTENDS Integers, Sequences, FiniteSets, TLC

\* ------------------------------------------------------------------------
\* Bounds of the model
\* ------------------------------------------------------------------------
\* number of clock advances explored per boot
MaxTicks == 1

\* number of consecutive scheduler ticks explored by SchedSpec
SchedTicks == 3

\* ------------------------------------------------------------------------
\* Device types and their capabilities
\* ------------------------------------------------------------------------
Devices == {"gateway", "sensor", "light", "switch"}

\* the gateway is wired (Ethernet), the others run loop()'s WiFi check
UsesWiFi(d) == d # "gateway"

\* TOPIC_OTA, handleOTACommand and performOTAUpdate exist on the ESP devices
SupportsOTA(d) == d # "gateway"

\* loadStateFromEEPROM / saveStateToEEPROM exist on gateway, light, switch
PersistsState(d) == d # "sensor"

\* interrupt-driven button (attachInterrupt ... buttonISR)
HasButtonISR(d) == d \in {"light", "switch"}

\* /control endpoint of the async web server
HasControlEndpoint(d) == d \in {"light", "switch"}

\* millis() is an unsigned counter; TLC integers are 32-bit signed, so the
\* counter is modelled 30 bits wide with the same modular arithmetic
Modulus == 2^30

\* mutant: the difference is taken in a signed type wider than the counter
Elapsed_NotModular(t, last) == t - last

\* `now - last` in unsigned long arithmetic
Elapsed(t, last) == (t - last) % Modulus

DEBOUNCE_DELAY == 50

FIRMWARE_VERSION == "1.0.0"

\* StaticJsonDocument<N> capacity used by mqttCallback
Capacity(d) == IF d = "gateway" THEN 256 ELSE 512

HeartbeatInterval(d) == IF d = "sensor" THEN 60000 ELSE 30000
StateInterval(d) == 5000
SensorReadInterval(d) == 5000
SensorPublishInterval(d) == 30000

\* ------------------------------------------------------------------------
\* Last will passed to mqttClient.connect
\* ------------------------------------------------------------------------
NoWill == [topic |-> "none", online |-> TRUE, qos |-> 0, retained |-> FALSE]

LastWill == [topic |-> "online", online |-> FALSE, qos |-> 1, retained |-> TRUE]

\* the gateway calls connect(id, user, password) without will arguments
WillOf(d) == IF d = "gateway" THEN NoWill ELSE LastWill

\* ------------------------------------------------------------------------
\* Effects of one handler run, in program order
\* ------------------------------------------------------------------------
Blank ==
  [kind |-> "", topic |-> "", retained |-> FALSE, qos |-> 0, up |-> FALSE,
   sent |-> FALSE, transport |-> "", online |-> FALSE, power |-> FALSE,
   brightness |-> 0, r |-> 0, g |-> 0, b |-> 0, status |-> "", version |-> ""]

Emit(s, e) == [s EXCEPT !.ev = Append(@, e)]

\* value of the retained `online` topic held by the broker
RetainedValue(online) == IF online THEN "true" ELSE "false"

\* mutant: a publish made while the session is down is kept and delivered
MqttPublish_Buffered(s, e) ==
  [s EXCEPT !.ev = Append(@, [e EXCEPT !.kind = "pub", !.up = s.conn, !.sent = TRUE]),
            !.ro = IF e.topic = "online" /\ e.retained
                   THEN RetainedValue(e.online) ELSE @]

\* PubSubClient::publish(topic, payload[, retained]): hands the message to
\* the broker when the session is up, returns false and sends nothing
\* otherwise
MqttPublish(s, e) ==
  IF s.conn
  THEN [s EXCEPT !.ev = Append(@, [e EXCEPT !.kind = "pub", !.up = TRUE, !.sent = TRUE]),
                 !.ro = IF e.topic = "online" /\ e.retained
                        THEN RetainedValue(e.online) ELSE @]
  ELSE [s EXCEPT !.ev = Append(@, [e EXCEPT !.kind = "pub", !.up = FALSE, !.sent = FALSE])]

\* the `if (mqttClient.connected()) mqttClient.publish(...)` guard
GuardedPublish(s, e) ==
  IF s.conn
  THEN MqttPublish(s, e)
  ELSE [s EXCEPT !.ev = Append(@, [e EXCEPT !.kind = "pub", !.up = FALSE, !.sent = FALSE])]

StateBody(s) ==
  [Blank EXCEPT !.topic = "state", !.retained = FALSE,
                !.power = s.ds.power, !.brightness = s.ds.brightness,
                !.r = s.ds.color_r, !.g = s.ds.color_g, !.b = s.ds.color_b]

\* mutant: every state publish also stores the power byte
publishState_Persisting(s) ==
  LET p == GuardedPublish(s, StateBody(s))
  IN  [p EXCEPT !.nv = [@ EXCEPT ![0] = IF s.ds.power THEN 1 ELSE 0],
                !.ev = Append(@, [Blank EXCEPT !.kind = "nvwrite", !.power = s.ds.power])]

publishState(s) == GuardedPublish(s, StateBody(s))

publishSensorData(s) == GuardedPublish(s, [Blank EXCEPT !.topic = "state", !.status = "sensors"])

publishStatus(s) ==
  GuardedPublish(s, [Blank EXCEPT !.topic = "status", !.retained = TRUE,
                                  !.online = s.ds.online, !.status = "snapshot"])

\* mutant: the online flag is not updated by the publish helper
publishOnlineStatus_FlagNotSet(s, online) ==
  GuardedPublish(s, [Blank EXCEPT !.topic = "online", !.retained = TRUE,
                                  !.online = online])

publishOnlineStatus(s, online) ==
  LET p == GuardedPublish(s, [Blank EXCEPT !.topic = "online", !.retained = TRUE,
                                           !.online = online])
  IN  [p EXCEPT !.ds.online = online]

readSensors(s) == Emit(s, [Blank EXCEPT !.kind = "readSensors"])

\* ------------------------------------------------------------------------
\* Non-volatile storage
\* ------------------------------------------------------------------------
\* EEPROM.write stores one byte: the int argument is converted to uint8_t
ToByte(x) == x % 256

\* mutant: the bytes are written to the cache and never committed to flash
saveStateToEEPROM_NoCommit(s, d) ==
  Emit(s, [Blank EXCEPT !.kind = "nvwrite", !.power = (s.nv[0] = 1),
                        !.brightness = s.nv[1], !.r = s.nv[2], !.g = s.nv[3],
                        !.b = s.nv[4]])

saveStateToEEPROM(s, d) ==
  LET img == IF d = "light"
             THEN [s.nv EXCEPT ![0] = IF s.ds.power THEN 1 ELSE 0,
                               ![1] = ToByte(s.ds.brightness),
                               ![2] = ToByte(s.ds.color_r),
                               ![3] = ToByte(s.ds.color_g),
                               ![4] = ToByte(s.ds.color_b)]
             ELSE [s.nv EXCEPT ![0] = IF s.ds.power THEN 1 ELSE 0]
  IN  [s EXCEPT !.nv = img,
                !.ev = Append(@, [Blank EXCEPT !.kind = "nvwrite",
                                               !.power = (img[0] = 1),
                                               !.brightness = img[1],
                                               !.r = img[2], !.g = img[3], !.b = img[4]])]

\* mutant: the brightness validation pasted over the red channel
loadStateFromEEPROM_ColourCappedAt100(ds, nv, d) ==
  IF d = "light"
  THEN [ds EXCEPT !.power = (nv[0] = 1),
                  !.brightness = IF nv[1] > 100 THEN 100 ELSE nv[1],
                  !.color_r = IF nv[2] > 100 THEN 100 ELSE nv[2],
                  !.color_g = IF nv[3] > 255 THEN 255 ELSE nv[3],
                  !.color_b = IF nv[4] > 255 THEN 255 ELSE nv[4]]
  ELSE IF PersistsState(d)
  THEN [ds EXCEPT !.power = (nv[0] = 1)]
  ELSE ds

\* mutant: the validation of the loaded brightness is missing
loadStateFromEEPROM_BrightnessUnchecked(ds, nv, d) ==
  IF d = "light"
  THEN [ds EXCEPT !.power = (nv[0] = 1),
                  !.brightness = nv[1],
                  !.color_r = IF nv[2] > 255 THEN 255 ELSE nv[2],
                  !.color_g = IF nv[3] > 255 THEN 255 ELSE nv[3],
                  !.color_b = IF nv[4] > 255 THEN 255 ELSE nv[4]]
  ELSE IF PersistsState(d)
  THEN [ds EXCEPT !.power = (nv[0] = 1)]
  ELSE ds

loadStateFromEEPROM(ds, nv, d) ==
  IF d = "light"
  THEN [ds EXCEPT !.power = (nv[0] = 1),
                  !.brightness = IF nv[1] > 100 THEN 100 ELSE nv[1],
                  !.color_r = IF nv[2] > 255 THEN 255 ELSE nv[2],
                  !.color_g = IF nv[3] > 255 THEN 255 ELSE nv[3],
                  !.color_b = IF nv[4] > 255 THEN 255 ELSE nv[4]]
  ELSE IF PersistsState(d)
  THEN [ds EXCEPT !.power = (nv[0] = 1)]
  ELSE ds

\* ------------------------------------------------------------------------
\* MQTT session connect
\* ------------------------------------------------------------------------
\* the mqttClient.connect(...) call of connectToMQTT() and what follows it:
\* `accept` is whether the broker answers the CONNECT; the TCP connection
\* underneath needs the transport
SessionConnect(s, d, tr, accept) ==
  LET ok == accept /\ tr = "Connected"
      w  == WillOf(d)
      c  == Emit(s, [Blank EXCEPT !.kind = "connect", !.transport = tr,
                                  !.sent = ok, !.topic = w.topic,
                                  !.online = w.online, !.qos = w.qos,
                                  !.retained = w.retained])
  IN  IF ok
      THEN LET c1 == [c EXCEPT !.conn = TRUE, !.will = w]
               c2 == Emit(c1, [Blank EXCEPT !.kind = "subscribe", !.topic = "command",
                                            !.up = TRUE, !.sent = TRUE])
               c3 == IF SupportsOTA(d)
                     THEN Emit(c2, [Blank EXCEPT !.kind = "subscribe", !.topic = "ota",
                                                 !.up = TRUE, !.sent = TRUE])
                     ELSE c2
               c4 == publishOnlineStatus(c3, TRUE)
               c5 == publishStatus(c4)
           IN  [c5 EXCEPT !.ds.online = TRUE]
      ELSE [c EXCEPT !.ds.online = FALSE]

\* mutant: the transport test of connectToMQTT() inverted
connectToMQTT_GuardInverted(s, d, tr, accept) ==
  IF UsesWiFi(d) /\ tr = "Connected" THEN s ELSE SessionConnect(s, d, tr, accept)

\* connectToMQTT(): the WiFi devices return at once without WiFi
connectToMQTT(s, d, tr, accept) ==
  IF UsesWiFi(d) /\ tr # "Connected" THEN s ELSE SessionConnect(s, d, tr, accept)

\* ------------------------------------------------------------------------
\* Inbound messages
\* ------------------------------------------------------------------------
\* A payload as mqttCallback sees it: `len` payload bytes, `wf` whether it is
\* well-formed JSON, `doc` the bytes its document needs in the
\* StaticJsonDocument, and the fields the handlers read
NoMsg ==
  [topic |-> "none", len |-> 0, doc |-> 0, wf |-> TRUE, command |-> "", action |-> "",
   power |-> FALSE, brightness |-> 0, r |-> 0, g |-> 0, b |-> 0, url |-> "absent"]

Cmd(c) == [NoMsg EXCEPT !.topic = "command", !.len = 64, !.doc = 48, !.command = c]

Ota(a, u) == [NoMsg EXCEPT !.topic = "ota", !.len = 64, !.doc = 48, !.action = a, !.url = u]

BrightnessInputs == {-5, 0, 50, 100, 101, 300}

ColorInputs == {<<255, 128, 0>>, <<300, -1, 256>>}

UrlInputs == {"absent", "", "http://fw"}

CommandDocs ==
  {[Cmd("set_power") EXCEPT !.power = p] : p \in BOOLEAN}
  \cup {[Cmd("set_brightness") EXCEPT !.brightness = n] : n \in BrightnessInputs}
  \cup {[Cmd("set_color") EXCEPT !.r = c[1], !.g = c[2], !.b = c[3]] : c \in ColorInputs}
  \cup {Cmd(c) : c \in {"toggle", "get_status", "get_sensors", "restart", "frobnicate"}}

OtaDocs ==
  {Ota("update", u) : u \in UrlInputs} \cup {Ota("check", "absent"), Ota("rollback", "absent")}

\* payloads that are not plain small documents: malformed text, documents
\* that overflow the JSON pool, and long payloads (padding) around a small
\* document
OddPayloads ==
  {[m EXCEPT !.wf = FALSE] : m \in {Cmd("toggle"), Ota("update", "http://fw")}}
  \cup {[m EXCEPT !.len = sz[1], !.doc = sz[2]] :
          m \in {Cmd("toggle"), Ota("update", "http://fw")},
          sz \in {<<600, 48>>, <<300, 300>>, <<600, 600>>}}

\* documents arriving on a topic that does not route them
Misrouted ==
  {[Cmd("toggle") EXCEPT !.topic = t] : t \in {"ota", "other"}}
  \cup {[Ota("update", "http://fw") EXCEPT !.topic = t] : t \in {"command", "other"}}

\* what a controller sends while an update is running
LateMessages == {Ota("update", "http://fw")}

Messages == CommandDocs \cup OtaDocs \cup OddPayloads \cup Misrouted

\* deserializeJson(doc, message): an error for malformed input and for a
\* document that does not fit the pool (NoMemory)
DeserializationError(d, m) == ~m.wf \/ m.doc > Capacity(d)

\* doc["url"].as<String>(): a missing member converts to the text "null"
UrlAsString(u) == IF u = "absent" THEN "null" ELSE u

\* ------------------------------------------------------------------------
\* Command handling
\* ------------------------------------------------------------------------
Mutate(s, ds2) ==
  Emit([s EXCEPT !.ds = ds2],
       [Blank EXCEPT !.kind = "mutate", !.power = ds2.power,
                     !.brightness = ds2.brightness,
                     !.r = ds2.color_r, !.g = ds2.color_g, !.b = ds2.color_b])

\* mutant: the restart is only requested and the caller carries on
Restart_Deferred(s) == Emit(s, [Blank EXCEPT !.kind = "restart"])

\* ESP.restart(): does not return
Restart(s) == Emit([s EXCEPT !.rst = TRUE], [Blank EXCEPT !.kind = "restart"])

\* mutant: the upper range check is missing
ClampBrightness_NoUpper(n) == IF n < 0 THEN 0 ELSE n

\* the two range checks following the brightness assignment
ClampBrightness(n) ==
  LET lo == IF n < 0 THEN 0 ELSE n
  IN  IF lo > 100 THEN 100 ELSE lo

\* the if/else ladder of handleCommand, without the trailing save
CommandLadder(h, d, m) ==
  LET c == m.command
  IN  IF d = "sensor"
      THEN IF c = "get_sensors" THEN publishSensorData(readSensors(h))
           ELSE IF c = "get_status" THEN publishStatus(h)
           ELSE IF c = "restart" THEN Restart(publishOnlineStatus(h, FALSE))
           ELSE h
      ELSE IF c = "set_power"
           THEN publishState(Mutate(h, [h.ds EXCEPT !.power = m.power]))
      ELSE IF c = "set_brightness" /\ d = "light"
           THEN publishState(Mutate(h, [h.ds EXCEPT !.brightness = ClampBrightness(m.brightness)]))
      ELSE IF c = "set_color" /\ d = "light"
           THEN publishState(Mutate(h, [h.ds EXCEPT !.color_r = m.r, !.color_g = m.g,
                                                    !.color_b = m.b]))
      ELSE IF c = "toggle"
           THEN publishState(Mutate(h, [h.ds EXCEPT !.power = ~h.ds.power]))
      ELSE IF c = "get_status"
           THEN publishState(publishStatus(h))
      ELSE IF c = "get_sensors" /\ d = "gateway"
           THEN publishState(readSensors(h))
      ELSE IF c = "restart" /\ d \in {"light", "switch"}
           THEN Restart(publishOnlineStatus(h, FALSE))
      ELSE h

\* mutant: the state publish sits after the ladder, for every command
handleCommand_PublishAfterLadder(s, d, m) ==
  LET h == Emit(s, [Blank EXCEPT !.kind = "handleCommand", !.status = m.command])
      l == CommandLadder(h, d, m)
  IN  IF l.rst \/ ~PersistsState(d) THEN publishState(l)
      ELSE saveStateToEEPROM(publishState(l), d)

\* mutant: the state is saved only while the session is up
handleCommand_SaveIfConnected(s, d, m) ==
  LET h == Emit(s, [Blank EXCEPT !.kind = "handleCommand", !.status = m.command])
      l == CommandLadder(h, d, m)
  IN  IF l.rst \/ ~PersistsState(d) \/ ~l.conn THEN l ELSE saveStateToEEPROM(l, d)

\* handleCommand(): the ladder, then `saveStateToEEPROM()` where the sketch
\* has it
handleCommand(s, d, m) ==
  LET h == Emit(s, [Blank EXCEPT !.kind = "handleCommand", !.status = m.command])
      l == CommandLadder(h, d, m)
  IN  IF l.rst \/ ~PersistsState(d) THEN l ELSE saveStateToEEPROM(l, d)

\* mutant: `check` is not told apart from `update`
handleOTACommand_CheckStartsUpdate(s, m) ==
  LET h == Emit(s, [Blank EXCEPT !.kind = "handleOTACommand", !.status = m.action])
  IN  IF m.action \in {"update", "check"}
      THEN [h EXCEPT !.url = UrlAsString(m.url), !.oip = TRUE]
      ELSE h

handleOTACommand(s, m) ==
  LET h == Emit(s, [Blank EXCEPT !.kind = "handleOTACommand", !.status = m.action])
  IN  IF m.action = "update"
      THEN [h EXCEPT !.url = UrlAsString(m.url), !.oip = TRUE]
      ELSE IF m.action = "check"
      THEN MqttPublish(h, [Blank EXCEPT !.topic = "status", !.retained = FALSE,
                                        !.status = "ready_for_update",
                                        !.version = FIRMWARE_VERSION])
      ELSE h

\* mutant: everything that is not a command goes to the OTA handler
mqttCallback_NoTopicCheck(s, d, m) ==
  LET err == DeserializationError(d, m)
      p   == Emit(s, [Blank EXCEPT !.kind = "parse", !.sent = ~err])
  IN  IF err THEN p
      ELSE IF m.topic = "command" THEN handleCommand(p, d, m)
      ELSE IF SupportsOTA(d) THEN handleOTACommand(p, m)
      ELSE p

mqttCallback(s, d, m) ==
  LET err == DeserializationError(d, m)
      p   == Emit(s, [Blank EXCEPT !.kind = "parse", !.sent = ~err])
  IN  IF err THEN p
      ELSE IF m.topic = "command" THEN handleCommand(p, d, m)
      ELSE IF SupportsOTA(d) /\ m.topic = "ota" THEN handleOTACommand(p, m)
      ELSE p

handleButton(s, d) ==
  saveStateToEEPROM(publishState(Mutate(s, [s.ds EXCEPT !.power = ~s.ds.power])), d)

\* ------------------------------------------------------------------------
\* OTA
\* ------------------------------------------------------------------------
\* the broker notices that the session is gone and publishes its will
SessionLost(s) ==
  [s EXCEPT !.conn = FALSE,
            !.ro = IF s.will.topic = "online" /\ s.will.retained
                   THEN RetainedValue(s.will.online) ELSE @,
            !.will = NoWill]

OtaOutcomes == {"HTTP_UPDATE_FAILED", "HTTP_UPDATE_NO_UPDATES", "HTTP_UPDATE_OK"}

TerminalStatus(ret) ==
  IF ret = "HTTP_UPDATE_FAILED" THEN "failed"
  ELSE IF ret = "HTTP_UPDATE_NO_UPDATES" THEN "no_update"
  ELSE "success"

\* mutant: the check of the url at the top is missing
performOTAUpdate_NoUrlCheck(s, ret, lost) ==
  LET a == MqttPublish(s, [Blank EXCEPT !.topic = "status", !.retained = FALSE,
                                        !.status = "updating"])
      t == Emit(a, [Blank EXCEPT !.kind = "httpUpdate", !.status = ret])
      u == IF lost /\ t.conn THEN SessionLost(t) ELSE t
      f == MqttPublish(u, [Blank EXCEPT !.topic = "status", !.retained = FALSE,
                                        !.status = TerminalStatus(ret)])
      g == [f EXCEPT !.oip = FALSE, !.url = ""]
  IN  IF ret = "HTTP_UPDATE_OK" THEN Restart(g) ELSE g

\* mutant: the device restarts after every transfer, whatever its outcome
performOTAUpdate_RestartAlways(s, ret, lost) ==
  IF s.url = ""
  THEN [s EXCEPT !.oip = FALSE]
  ELSE LET a == MqttPublish(s, [Blank EXCEPT !.topic = "status", !.retained = FALSE,
                                             !.status = "updating"])
           t == Emit(a, [Blank EXCEPT !.kind = "httpUpdate", !.status = ret])
           u == IF lost /\ t.conn THEN SessionLost(t) ELSE t
           f == MqttPublish(u, [Blank EXCEPT !.topic = "status", !.retained = FALSE,
                                             !.status = TerminalStatus(ret)])
       IN  Restart([f EXCEPT !.oip = FALSE, !.url = ""])

\* mutant: a failed job is left pending, to be tried again
performOTAUpdate_KeepsFailedJob(s, ret, lost) ==
  IF s.url = ""
  THEN [s EXCEPT !.oip = FALSE]
  ELSE LET a == MqttPublish(s, [Blank EXCEPT !.topic = "status", !.retained = FALSE,
                                             !.status = "updating"])
           t == Emit(a, [Blank EXCEPT !.kind = "httpUpdate", !.status = ret])
           u == IF lost /\ t.conn THEN SessionLost(t) ELSE t
           f == MqttPublish(u, [Blank EXCEPT !.topic = "status", !.retained = FALSE,
                                             !.status = TerminalStatus(ret)])
           g == IF ret = "HTTP_UPDATE_FAILED" THEN f ELSE [f EXCEPT !.oip = FALSE, !.url = ""]
       IN  IF ret = "HTTP_UPDATE_OK" THEN Restart(g) ELSE g

\* mutant: the transfer starts without the "updating" status
performOTAUpdate_NoUpdatingStatus(s, ret, lost) ==
  IF s.url = ""
  THEN [s EXCEPT !.oip = FALSE]
  ELSE LET t == Emit(s, [Blank EXCEPT !.kind = "httpUpdate", !.status = ret])
           u == IF lost /\ t.conn THEN SessionLost(t) ELSE t
           f == MqttPublish(u, [Blank EXCEPT !.topic = "status", !.retained = FALSE,
                                             !.status = TerminalStatus(ret)])
           g == [f EXCEPT !.oip = FALSE, !.url = ""]
       IN  IF ret = "HTTP_UPDATE_OK" THEN Restart(g) ELSE g

\* performOTAUpdate(): `ret` is what httpUpdate.update returns, `lost`
\* whether the session goes away during the blocking transfer
performOTAUpdate(s, ret, lost) ==
  IF s.url = ""
  THEN [s EXCEPT !.oip = FALSE]
  ELSE LET a == MqttPublish(s, [Blank EXCEPT !.topic = "status", !.retained = FALSE,
                                             !.status = "updating"])
           t == Emit(a, [Blank EXCEPT !.kind = "httpUpdate", !.status = ret])
           u == IF lost /\ t.conn THEN SessionLost(t) ELSE t
           f == MqttPublish(u, [Blank EXCEPT !.topic = "status", !.retained = FALSE,
                                             !.status = TerminalStatus(ret)])
           g == [f EXCEPT !.oip = FALSE, !.url = ""]
       IN  IF ret = "HTTP_UPDATE_OK" THEN Restart(g) ELSE g

\* ------------------------------------------------------------------------
\* Periodic tasks of loop()
\* ------------------------------------------------------------------------
ZeroTimers ==
  [lastHeartbeat |-> 0, lastStateUpdate |-> 0, lastSensorRead |-> 0, lastPublish |-> 0]

\* mutant: the heartbeat block also stamps the publish timer
SchedulerTick_SharedTimestamp(s, d, tm, t) ==
  LET hb == Elapsed(t, tm.lastHeartbeat) > HeartbeatInterval(d)
  IN  IF d \in {"light", "switch"}
      THEN LET su == Elapsed(t, tm.lastStateUpdate) > StateInterval(d)
               s1 == IF hb THEN publishOnlineStatus(s, TRUE) ELSE s
               s2 == IF su THEN publishState(s1) ELSE s1
           IN  [s |-> s2,
                tm |-> [tm EXCEPT !.lastHeartbeat = IF hb THEN t ELSE @,
                                  !.lastStateUpdate = IF su \/ hb THEN t ELSE @]]
      ELSE IF d = "gateway"
      THEN LET sr == Elapsed(t, tm.lastSensorRead) > SensorReadInterval(d)
               s1 == IF sr THEN readSensors(s) ELSE s
               s2 == IF hb THEN publishState(publishOnlineStatus(s1, TRUE)) ELSE s1
           IN  [s |-> s2,
                tm |-> [tm EXCEPT !.lastSensorRead = IF sr THEN t ELSE @,
                                  !.lastHeartbeat = IF hb THEN t ELSE @]]
      ELSE LET sr == Elapsed(t, tm.lastSensorRead) > SensorReadInterval(d)
               sp == Elapsed(t, tm.lastPublish) > SensorPublishInterval(d)
               s1 == IF sr THEN readSensors(s) ELSE s
               s2 == IF sp THEN publishSensorData(s1) ELSE s1
               s3 == IF hb THEN publishOnlineStatus(s2, TRUE) ELSE s2
           IN  [s |-> s3,
                tm |-> [tm EXCEPT !.lastSensorRead = IF sr THEN t ELSE @,
                                  !.lastPublish = IF sp \/ hb THEN t ELSE @,
                                  !.lastHeartbeat = IF hb THEN t ELSE @]]

\* the `if (now - last > interval)` blocks of loop(), in program order;
\* yields the handler state and the timers after the tick at time t
SchedulerTick(s, d, tm, t) ==
  LET hb == Elapsed(t, tm.lastHeartbeat) > HeartbeatInterval(d)
  IN  IF d \in {"light", "switch"}
      THEN LET su == Elapsed(t, tm.lastStateUpdate) > StateInterval(d)
               s1 == IF hb THEN publishOnlineStatus(s, TRUE) ELSE s
               s2 == IF su THEN publishState(s1) ELSE s1
           IN  [s |-> s2,
                tm |-> [tm EXCEPT !.lastHeartbeat = IF hb THEN t ELSE @,
                                  !.lastStateUpdate = IF su THEN t ELSE @]]
      ELSE IF d = "gateway"
      THEN LET sr == Elapsed(t, tm.lastSensorRead) > SensorReadInterval(d)
               s1 == IF sr THEN readSensors(s) ELSE s
               s2 == IF hb THEN publishState(publishOnlineStatus(s1, TRUE)) ELSE s1
           IN  [s |-> s2,
                tm |-> [tm EXCEPT !.lastSensorRead = IF sr THEN t ELSE @,
                                  !.lastHeartbeat = IF hb THEN t ELSE @]]
      ELSE LET sr == Elapsed(t, tm.lastSensorRead) > SensorReadInterval(d)
               sp == Elapsed(t, tm.lastPublish) > SensorPublishInterval(d)
               s1 == IF sr THEN readSensors(s) ELSE s
               s2 == IF sp THEN publishSensorData(s1) ELSE s1
               s3 == IF hb THEN publishOnlineStatus(s2, TRUE) ELSE s2
           IN  [s |-> s3,
                tm |-> [tm EXCEPT !.lastSensorRead = IF sr THEN t ELSE @,
                                  !.lastPublish = IF sp THEN t ELSE @,
                                  !.lastHeartbeat = IF hb THEN t ELSE @]]

\* time that passes between two readings of millis() in loop()
Deltas == {5001, 60001}

\* ------------------------------------------------------------------------
\* State
\* ------------------------------------------------------------------------
VARIABLES
  dev,             \* which firmware image runs
  pc,              \* position of the device in setup()/loop()
  transport,       \* WiFi.status() / Ethernet link
  brokerUp,        \* the broker answers CONNECT
  mqttConnected,   \* mqttClient.connected()
  brokerWill,      \* will the broker holds for the session
  retainedOnline,  \* retained value of the `online` topic at the broker
  deviceState,     \* deviceState / switchState / gatewayState / sensorState
  timers,          \* last fire times of the periodic tasks
  now,             \* millis()
  ticks,           \* clock advances since boot
  eeprom,          \* EEPROM bytes 0..4
  otaInProgress,
  otaUrl,
  buttonPressed,   \* ISR flag (light, switch); gatewayState.buttonPressed
  lastButtonPress,
  pinLow,          \* digitalRead(BUTTON_PIN) == LOW on the gateway
  lastMsg,         \* message handed to mqttCallback by the last step
  inbox,           \* message waiting in the client's socket, not yet read
  wdtFed,          \* millis() at the last esp_task_wdt_reset()
  ev               \* effects of the last step, in program order

vars ==
  <<dev, pc, transport, brokerUp, mqttConnected, brokerWill, retainedOnline,
    deviceState, timers, now, ticks, eeprom, otaInProgress, otaUrl,
    buttonPressed, lastButtonPress, pinLow, lastMsg, inbox, wdtFed, ev>>

\* struct DeviceState / SwitchState / GatewayState / SensorState initialisers
DefaultState ==
  [power |-> FALSE, brightness |-> 100, color_r |-> 255, color_g |-> 255,
   color_b |-> 255, online |-> FALSE]

Erased == [i \in 0..4 |-> 255]

\* contents the EEPROM can hold when the device is first powered
NVImages(d) ==
  IF d = "light"
  THEN {Erased,
        [i \in 0..4 |-> IF i = 0 THEN 1 ELSE IF i = 1 THEN 50 ELSE IF i = 2 THEN 255
                        ELSE IF i = 3 THEN 128 ELSE 0]}
  ELSE IF d = "sensor" THEN {Erased}
  ELSE {Erased, [Erased EXCEPT ![0] = 1]}

\* the handler state a step starts from
S0 ==
  [ds |-> deviceState, nv |-> eeprom, ev |-> <<>>, conn |-> mqttConnected,
   ro |-> retainedOnline, will |-> brokerWill, oip |-> otaInProgress,
   url |-> otaUrl, rst |-> FALSE, inbox |-> inbox]

\* writes back what a handler run left; a restart loses RAM and the session
Commit(s, nextpc, tm, t, k, bp, lbp, msg) ==
  LET q == IF s.rst /\ s.conn THEN SessionLost(s) ELSE s
  IN  /\ pc' = IF s.rst THEN "boot" ELSE nextpc
      /\ deviceState' = IF s.rst THEN DefaultState ELSE q.ds
      /\ eeprom' = q.nv
      /\ ev' = q.ev
      /\ lastMsg' = msg
      /\ inbox' = IF q.conn /\ ~s.rst THEN q.inbox ELSE NoMsg
      /\ mqttConnected' = q.conn
      /\ retainedOnline' = q.ro
      /\ brokerWill' = q.will
      /\ otaInProgress' = IF s.rst THEN FALSE ELSE q.oip
      /\ otaUrl' = IF s.rst THEN "" ELSE q.url
      /\ timers' = IF s.rst THEN ZeroTimers ELSE tm
      /\ now' = IF s.rst THEN 0 ELSE t
      /\ ticks' = IF s.rst THEN 0 ELSE k
      /\ buttonPressed' = IF s.rst THEN FALSE ELSE bp
      /\ lastButtonPress' = IF s.rst THEN 0 ELSE lbp
      /\ transport' = IF s.rst /\ UsesWiFi(dev) THEN "Disconnected" ELSE transport
      /\ UNCHANGED <<dev, brokerUp, pinLow, wdtFed>>

Init ==
  /\ dev \in Devices
  /\ pc = "boot"
  /\ transport \in (IF UsesWiFi(dev) THEN {"Disconnected"} ELSE {"Disconnected", "Connected"})
  /\ brokerUp \in BOOLEAN
  /\ mqttConnected = FALSE
  /\ brokerWill = NoWill
  /\ retainedOnline = "none"
  /\ deviceState = DefaultState
  /\ timers = ZeroTimers
  /\ now = 0
  /\ ticks = 0
  /\ eeprom \in NVImages(dev)
  /\ otaInProgress = FALSE
  /\ otaUrl = ""
  /\ buttonPressed = FALSE
  /\ lastButtonPress = 0
  /\ pinLow = FALSE
  /\ lastMsg = NoMsg
  /\ inbox = NoMsg
  /\ wdtFed = 0
  /\ ev = <<>>

\* ------------------------------------------------------------------------
\* setup() and the stages of loop()
\* ------------------------------------------------------------------------
FirstStage(d) == IF UsesWiFi(d) THEN "wifi" ELSE "mqtt"

AfterMqtt(d) == IF d = "sensor" THEN "sched" ELSE "button"

AfterSched(d) == IF SupportsOTA(d) THEN "ota" ELSE FirstStage(d)

\* setup(): restores the state and brings the transport up; on the WiFi
\* devices setupWiFi() only returns once WiFi is connected (it restarts the
\* device otherwise)
Setup ==
  /\ pc = "boot"
  /\ pc' = FirstStage(dev)
  /\ deviceState' = loadStateFromEEPROM(DefaultState, eeprom, dev)
  /\ transport' = IF UsesWiFi(dev) THEN "Connected" ELSE transport
  /\ ev' = <<>>
  /\ lastMsg' = NoMsg
  /\ UNCHANGED <<wdtFed, inbox, dev, brokerUp, mqttConnected, brokerWill, retainedOnline, timers, now,
                 ticks, eeprom, otaInProgress, otaUrl, buttonPressed, lastButtonPress,
                 pinLow>>

\* `if (WiFi.status() != WL_CONNECTED) connectToWiFi();`: up to 20 polls of
\* 500 ms, after which the link is up (ok) or still down
LoopWiFi ==
  /\ pc = "wifi"
  /\ pc' = "mqtt"
  /\ \E ok \in BOOLEAN :
       transport' = IF transport = "Connected" THEN "Connected"
                    ELSE IF ok THEN "Connected" ELSE "Disconnected"
  /\ ev' = <<>>
  /\ lastMsg' = NoMsg
  /\ UNCHANGED <<wdtFed, inbox, dev, brokerUp, mqttConnected, brokerWill, retainedOnline, deviceState,
                 timers, now, ticks, eeprom, otaInProgress, otaUrl, buttonPressed,
                 lastButtonPress, pinLow>>

\* `if (!mqttClient.connected()) connectToMQTT();`
LoopMqttConnect ==
  /\ pc = "mqtt"
  /\ ~mqttConnected
  /\ Commit(connectToMQTT(S0, dev, transport, brokerUp), AfterMqtt(dev), timers, now,
            ticks, buttonPressed, lastButtonPress, NoMsg)

\* `else mqttClient.loop();`: nothing to read, or one message handed to
\* mqttCallback, the one waiting in the socket first; `lost` is the
\* connection going away after the packet was read
LoopMqttPoll(Msgs) ==
  /\ pc = "mqtt"
  /\ mqttConnected
  /\ \E m \in (IF inbox = NoMsg THEN Msgs \cup {NoMsg} ELSE {inbox}), lost \in BOOLEAN :
       /\ lastMsg' = m
       /\ LET r == [S0 EXCEPT !.inbox = NoMsg]
              s == IF lost THEN SessionLost(r) ELSE r
          IN  Commit(IF m = NoMsg THEN s ELSE mqttCallback(s, dev, m), AfterMqtt(dev),
                     timers, now, ticks, buttonPressed, lastButtonPress, m)

\* the button block of loop()
LoopButton ==
  /\ pc = "button"
  /\ IF HasButtonISR(dev)
     THEN Commit(IF buttonPressed THEN handleButton(S0, dev) ELSE S0, "sched",
                 timers, now, ticks, FALSE, lastButtonPress, NoMsg)
     ELSE IF pinLow
     THEN IF ~buttonPressed /\ Elapsed(now, lastButtonPress) > DEBOUNCE_DELAY
          THEN Commit(handleButton(S0, dev), "sched", timers, now, ticks, TRUE, now, NoMsg)
          ELSE Commit(S0, "sched", timers, now, ticks, buttonPressed, lastButtonPress, NoMsg)
     ELSE Commit(S0, "sched", timers, now, ticks, FALSE, lastButtonPress, NoMsg)

\* `unsigned long now = millis();` and the periodic blocks
LoopSchedWithin(D, K) ==
  /\ pc = "sched"
  /\ \E d \in D \cup {0} :
       /\ IF ticks < K THEN d # 0 ELSE d = 0
       /\ LET t == (now + d) % Modulus
              r == SchedulerTick(S0, dev, timers, t)
          IN  Commit(r.s, AfterSched(dev), r.tm, t, IF d = 0 THEN ticks ELSE ticks + 1,
                     buttonPressed, lastButtonPress, NoMsg)

LoopSched(D) == LoopSchedWithin(D, MaxTicks)

\* `if (otaInProgress) performOTAUpdate();`: `late` is a message the broker
\* sent while the blocking transfer kept loop() from reading the socket
LoopOTA ==
  /\ pc = "ota"
  /\ IF otaInProgress
     THEN \E ret \in OtaOutcomes, lost \in BOOLEAN, late \in LateMessages \cup {NoMsg} :
            /\ (late # NoMsg) => (otaUrl # "" /\ ~lost)
            /\ Commit([performOTAUpdate(S0, ret, lost) EXCEPT !.inbox = late],
                      FirstStage(dev), timers, now, ticks, buttonPressed,
                      lastButtonPress, NoMsg)
     ELSE Commit(S0, FirstStage(dev), timers, now, ticks, buttonPressed,
                 lastButtonPress, NoMsg)

\* ------------------------------------------------------------------------
\* Environment: link, broker, button, HTTP client
\* ------------------------------------------------------------------------
Quiet == ev' = <<>> /\ lastMsg' = NoMsg

\* the link goes away without a clean MQTT disconnect
LinkDrop ==
  /\ transport = "Connected"
  /\ pc # "boot"
  /\ transport' = "Disconnected"
  /\ LET q == IF mqttConnected THEN SessionLost(S0) ELSE S0
     IN  /\ mqttConnected' = q.conn
         /\ retainedOnline' = q.ro
         /\ brokerWill' = q.will
  /\ Quiet
  /\ inbox' = NoMsg
  /\ UNCHANGED <<wdtFed, dev, pc, brokerUp, deviceState, timers, now, ticks, eeprom,
                 otaInProgress, otaUrl, buttonPressed, lastButtonPress, pinLow>>

\* the link comes back by itself (cable, WiFi auto-reconnect)
LinkUp ==
  /\ transport # "Connected"
  /\ UsesWiFi(dev) => pc # "boot"
  /\ transport' = "Connected"
  /\ Quiet
  /\ UNCHANGED <<wdtFed, inbox, dev, pc, brokerUp, mqttConnected, brokerWill, retainedOnline,
                 deviceState, timers, now, ticks, eeprom, otaInProgress, otaUrl,
                 buttonPressed, lastButtonPress, pinLow>>

\* the broker closes the session (keep-alive timeout, takeover, reset)
SessionDrop ==
  /\ mqttConnected
  /\ LET q == SessionLost(S0)
     IN  /\ mqttConnected' = q.conn
         /\ retainedOnline' = q.ro
         /\ brokerWill' = q.will
  /\ Quiet
  /\ inbox' = NoMsg
  /\ UNCHANGED <<wdtFed, dev, pc, transport, brokerUp, deviceState, timers, now, ticks, eeprom,
                 otaInProgress, otaUrl, buttonPressed, lastButtonPress, pinLow>>

\* the broker stops: its sessions end and no will is sent
BrokerDown ==
  /\ brokerUp
  /\ brokerUp' = FALSE
  /\ mqttConnected' = FALSE
  /\ brokerWill' = NoWill
  /\ Quiet
  /\ inbox' = NoMsg
  /\ UNCHANGED <<wdtFed, dev, pc, transport, retainedOnline, deviceState, timers, now, ticks,
                 eeprom, otaInProgress, otaUrl, buttonPressed, lastButtonPress, pinLow>>

BrokerBack ==
  /\ ~brokerUp
  /\ brokerUp' = TRUE
  /\ Quiet
  /\ UNCHANGED <<wdtFed, inbox, dev, pc, transport, mqttConnected, brokerWill, retainedOnline,
                 deviceState, timers, now, ticks, eeprom, otaInProgress, otaUrl,
                 buttonPressed, lastButtonPress, pinLow>>

\* buttonISR(): falling edge on BUTTON_PIN
ButtonISR ==
  /\ HasButtonISR(dev)
  /\ pc # "boot"
  /\ IF Elapsed(now, lastButtonPress) > DEBOUNCE_DELAY
     THEN buttonPressed' = TRUE /\ lastButtonPress' = now
     ELSE UNCHANGED <<buttonPressed, lastButtonPress>>
  /\ Quiet
  /\ UNCHANGED <<wdtFed, inbox, dev, pc, transport, brokerUp, mqttConnected, brokerWill, retainedOnline,
                 deviceState, timers, now, ticks, eeprom, otaInProgress, otaUrl, pinLow>>

\* the gateway's button is pressed or released
PinChange ==
  /\ dev = "gateway"
  /\ pinLow' = ~pinLow
  /\ Quiet
  /\ UNCHANGED <<wdtFed, inbox, dev, pc, transport, brokerUp, mqttConnected, brokerWill, retainedOnline,
                 deviceState, timers, now, ticks, eeprom, otaInProgress, otaUrl,
                 buttonPressed, lastButtonPress>>

\* the device is reset from outside (power cycle, reset line, watchdog):
\* RAM is lost, EEPROM is kept, setup() runs again
PowerCycle ==
  /\ pc # "boot"
  /\ Commit(Emit([S0 EXCEPT !.rst = TRUE], [Blank EXCEPT !.kind = "reset"]), pc, timers,
            now, ticks, buttonPressed, lastButtonPress, NoMsg)

\* POST /control with a `power` parameter, served by the async web server
HttpControl ==
  /\ HasControlEndpoint(dev)
  /\ pc # "boot"
  /\ transport = "Connected"
  /\ \E p \in BOOLEAN :
       Commit(publishState(Mutate(S0, [deviceState EXCEPT !.power = p])), pc, timers,
              now, ticks, buttonPressed, lastButtonPress, NoMsg)

\* ------------------------------------------------------------------------
\* Specification
\* ------------------------------------------------------------------------
Next ==
  \/ Setup
  \/ LoopWiFi
  \/ LoopMqttConnect
  \/ LoopMqttPoll(Messages)
  \/ LoopButton
  \/ LoopSched(Deltas)
  \/ LoopOTA
  \/ LinkDrop
  \/ LinkUp
  \/ SessionDrop
  \/ BrokerDown
  \/ BrokerBack
  \/ ButtonISR
  \/ PinChange
  \/ HttpControl
  \/ PowerCycle

Spec == Init /\ [][Next]_vars

\* positions of the device in setup()/loop()
Stages == {"boot", "wifi", "mqtt", "button", "sched", "ota"}

\* the device moves on to its next stage; every step of Next that changes
\* pc is a step of setup() or loop(), and one is enabled in every state
Advance == pc' \in Stages

\* setup() runs once and loop() is called again and again, and none of
\* their stages blocks for ever: the device always takes its next step
LiveSpec == Init /\ [][Next]_vars /\ WF_pc(Advance)

\* ------------------------------------------------------------------------
\* Persistence round trip: save, restart, load
\* ------------------------------------------------------------------------
\* in-range states of the persisting devices: every brightness with the
\* colour channels at their ends, and every channel value
RoundTripStates(d) ==
  IF d = "light"
  THEN {[DefaultState EXCEPT !.power = p, !.brightness = n, !.color_r = c[1],
                             !.color_g = c[2], !.color_b = c[3]] :
          p \in BOOLEAN, n \in 0..100, c \in {<<0, 255, 0>>, <<255, 0, 255>>}}
       \cup {[DefaultState EXCEPT !.power = p, !.brightness = n, !.color_r = c,
                                  !.color_g = 255 - c, !.color_b = (7 * c) % 256] :
               p \in BOOLEAN, n \in {0, 100}, c \in 0..255}
  ELSE {[DefaultState EXCEPT !.power = p] : p \in BOOLEAN}

RoundTripInit ==
  /\ dev \in {d \in Devices : PersistsState(d)}
  /\ pc = "ram"
  /\ deviceState \in RoundTripStates(dev)
  /\ eeprom \in NVImages(dev)
  /\ transport = "Connected"
  /\ brokerUp = TRUE
  /\ mqttConnected = FALSE
  /\ brokerWill = NoWill
  /\ retainedOnline = "none"
  /\ timers = ZeroTimers
  /\ now = 0
  /\ ticks = 0
  /\ otaInProgress = FALSE
  /\ otaUrl = ""
  /\ buttonPressed = FALSE
  /\ lastButtonPress = 0
  /\ pinLow = FALSE
  /\ lastMsg = NoMsg
  /\ inbox = NoMsg
  /\ wdtFed = 0
  /\ ev = <<>>

\* saveStateToEEPROM() on the state in RAM; the log keeps the values that
\* were in RAM, followed by the write
RoundTripSave ==
  /\ pc = "ram"
  /\ pc' = "saved"
  /\ LET s == saveStateToEEPROM(Mutate(S0, deviceState), dev)
     IN  eeprom' = s.nv /\ ev' = s.ev
  /\ UNCHANGED <<wdtFed, inbox, dev, transport, brokerUp, mqttConnected, brokerWill, retainedOnline,
                 deviceState, timers, now, ticks, otaInProgress, otaUrl, buttonPressed,
                 lastButtonPress, pinLow, lastMsg>>

\* restart: RAM is back at the struct initialisers, EEPROM is kept
RoundTripRestart ==
  /\ pc = "saved"
  /\ pc' = "reset"
  /\ deviceState' = DefaultState
  /\ UNCHANGED <<wdtFed, inbox, dev, transport, brokerUp, mqttConnected, brokerWill, retainedOnline,
                 timers, now, ticks, eeprom, otaInProgress, otaUrl, buttonPressed,
                 lastButtonPress, pinLow, lastMsg, ev>>

\* loadStateFromEEPROM() as setup() calls it
RoundTripLoad ==
  /\ pc = "reset"
  /\ pc' = "loaded"
  /\ deviceState' = loadStateFromEEPROM(deviceState, eeprom, dev)
  /\ UNCHANGED <<wdtFed, inbox, dev, transport, brokerUp, mqttConnected, brokerWill, retainedOnline,
                 timers, now, ticks, eeprom, otaInProgress, otaUrl, buttonPressed,
                 lastButtonPress, pinLow, lastMsg, ev>>

RoundTripNext == RoundTripSave \/ RoundTripRestart \/ RoundTripLoad

RoundTripSpec == RoundTripInit /\ [][RoundTripNext]_vars

\* ------------------------------------------------------------------------
\* The periodic blocks on their own: consecutive ticks at many distances
\* ------------------------------------------------------------------------
\* times at which all periodic blocks fired together (at boot the timers
\* and millis() are 0; after a stall longer than every interval they all
\* hold the time of the tick that followed it), at boot and shortly before
\* the counter wraps
SchedStarts == {0, Modulus - 1, Modulus - 4000, Modulus - 29000}

\* time between two passes of loop() through the periodic blocks
SchedDeltas == {100, 2500, 5001, 25000, 30001, 60001}

SchedInit ==
  /\ dev \in Devices
  /\ pc = "sched"
  /\ now \in SchedStarts
  /\ timers = [lastHeartbeat |-> now, lastStateUpdate |-> now, lastSensorRead |-> now,
               lastPublish |-> now]
  /\ ticks = 0
  /\ transport = "Connected"
  /\ brokerUp = TRUE
  /\ mqttConnected \in BOOLEAN
  /\ brokerWill = (IF mqttConnected THEN WillOf(dev) ELSE NoWill)
  /\ retainedOnline = (IF mqttConnected THEN "true" ELSE "none")
  /\ deviceState = [DefaultState EXCEPT !.online = mqttConnected]
  /\ eeprom = Erased
  /\ otaInProgress = FALSE
  /\ otaUrl = ""
  /\ buttonPressed = FALSE
  /\ lastButtonPress = 0
  /\ pinLow = FALSE
  /\ lastMsg = NoMsg
  /\ inbox = NoMsg
  /\ wdtFed = 0
  /\ ev = <<>>

\* the rest of a loop iteration with nothing to do: no message, no button
\* press, no OTA job
SchedRest ==
  /\ pc # "sched"
  /\ pc' = "sched"
  /\ Quiet
  /\ UNCHANGED <<wdtFed, inbox, dev, transport, brokerUp, mqttConnected, brokerWill,
                 retainedOnline, deviceState, timers, now, ticks, eeprom, otaInProgress,
                 otaUrl, buttonPressed, lastButtonPress, pinLow>>

SchedNext == LoopSchedWithin(SchedDeltas, SchedTicks) \/ SchedRest

SchedSpec == SchedInit /\ [][SchedNext]_vars

\* ------------------------------------------------------------------------
\* The button block statement by statement, with the interrupt in between
\* ------------------------------------------------------------------------
\* clock advances in one run
ButtonTicks == 3

\* time that passes between two looks at millis(): less and more than the
\* debounce delay
ButtonGaps == {10, 60}

ButtonInit ==
  /\ dev \in {d \in Devices : HasButtonISR(d)}
  /\ pc = "button"
  /\ now = 0
  /\ timers = ZeroTimers
  /\ ticks = 0
  /\ transport = "Connected"
  /\ brokerUp = TRUE
  /\ mqttConnected \in BOOLEAN
  /\ brokerWill = (IF mqttConnected THEN WillOf(dev) ELSE NoWill)
  /\ retainedOnline = (IF mqttConnected THEN "true" ELSE "none")
  /\ eeprom \in NVImages(dev)
  /\ deviceState = [loadStateFromEEPROM(DefaultState, eeprom, dev)
                      EXCEPT !.online = mqttConnected]
  /\ otaInProgress = FALSE
  /\ otaUrl = ""
  /\ buttonPressed = FALSE
  /\ lastButtonPress = 0
  /\ pinLow = FALSE
  /\ lastMsg = NoMsg
  /\ inbox = NoMsg
  /\ wdtFed = 0
  /\ ev = <<>>

\* `if (buttonPressed) {`
ButtonTest ==
  /\ pc = "button"
  /\ pc' = IF buttonPressed THEN "handle" ELSE "rest"
  /\ Quiet
  /\ UNCHANGED <<wdtFed, inbox, dev, transport, brokerUp, mqttConnected, brokerWill,
                 retainedOnline, deviceState, timers, now, ticks, eeprom, otaInProgress,
                 otaUrl, buttonPressed, lastButtonPress, pinLow>>

\* `handleButton();`
ButtonHandle ==
  /\ pc = "handle"
  /\ Commit(handleButton(S0, dev), "clear", timers, now, ticks, buttonPressed,
            lastButtonPress, NoMsg)

\* `buttonPressed = false; }`
ButtonClear ==
  /\ pc = "clear"
  /\ pc' = "rest"
  /\ buttonPressed' = FALSE
  /\ Quiet
  /\ UNCHANGED <<wdtFed, inbox, dev, transport, brokerUp, mqttConnected, brokerWill,
                 retainedOnline, deviceState, timers, now, ticks, eeprom, otaInProgress,
                 otaUrl, lastButtonPress, pinLow>>

\* the rest of the iteration with nothing to do, back to the button block
ButtonRest ==
  /\ pc = "rest"
  /\ pc' = "button"
  /\ Quiet
  /\ UNCHANGED <<wdtFed, inbox, dev, transport, brokerUp, mqttConnected, brokerWill,
                 retainedOnline, deviceState, timers, now, ticks, eeprom, otaInProgress,
                 otaUrl, buttonPressed, lastButtonPress, pinLow>>

\* millis() moves on, wherever the loop is
ButtonTime ==
  /\ ticks < ButtonTicks
  /\ \E g \in ButtonGaps : now' = (now + g) % Modulus
  /\ ticks' = ticks + 1
  /\ Quiet
  /\ UNCHANGED <<wdtFed, inbox, dev, pc, transport, brokerUp, mqttConnected, brokerWill,
                 retainedOnline, deviceState, timers, eeprom, otaInProgress, otaUrl,
                 buttonPressed, lastButtonPress, pinLow>>

ButtonNext ==
  \/ ButtonTest
  \/ ButtonHandle
  \/ ButtonClear
  \/ ButtonRest
  \/ ButtonTime
  \/ ButtonISR

ButtonSpec == ButtonInit /\ [][ButtonNext]_vars

\* ------------------------------------------------------------------------
\* loop() with the time its blocking calls take, and the task watchdog
\* ------------------------------------------------------------------------
\* iterations of loop() per boot
TimedRounds == 2

\* `esp_task_wdt_init(30, true); esp_task_wdt_add(NULL);` in setup()
ArmsWatchdog(d) == d \in {"light", "sensor"}

WDT_TIMEOUT == 30000

WIFI_ATTEMPTS == 20

WIFI_POLL_DELAY == 500

\* number of polls after which WiFi.status() reports the link up: at the
\* first poll, at the last one, or not within this call
LinkUpAfter == {1, WIFI_ATTEMPTS, WIFI_ATTEMPTS + 1}

\* time mqttClient.connect() takes to return
ConnectTimes == {100, 15000}

\* time httpUpdate.update() takes to return
TransferTimes == {2000, 25000, 31000}

TimedMessages == {Ota("update", "http://fw"), Ota("update", "")}

RECURSIVE PollWiFi(_, _, _, _)
\* `while (WiFi.status() != WL_CONNECTED && attempts < limit) { delay(500);
\* attempts++; }`
PollWiFi(s, attempts, upAfter, limit) ==
  IF attempts < upAfter /\ attempts < limit
  THEN PollWiFi(Emit(s, [Blank EXCEPT !.kind = "delay"]), attempts + 1, upAfter, limit)
  ELSE s

\* mutant: the loop condition reads `attempts <= 20`
connectToWiFi_OneTooMany(s, tr, upAfter) ==
  IF tr # "Connected"
  THEN PollWiFi(Emit(s, [Blank EXCEPT !.kind = "WiFi.begin"]), 0, upAfter,
                WIFI_ATTEMPTS + 1)
  ELSE s

\* connectToWiFi()
connectToWiFi(s, tr, upAfter) ==
  IF tr # "Connected"
  THEN PollWiFi(Emit(s, [Blank EXCEPT !.kind = "WiFi.begin"]), 0, upAfter, WIFI_ATTEMPTS)
  ELSE s

\* polls made by a run of connectToWiFi
Polls(log) == Cardinality({i \in 1..Len(log) : log[i].kind = "delay"})

\* the watchdog expires t ms after millis() = now: loop() has not come back
\* to esp_task_wdt_reset() within the timeout
Expired(d, t) == ArmsWatchdog(d) /\ Elapsed((now + t) % Modulus, wdtFed) > WDT_TIMEOUT

\* the panic handler resets the chip
WatchdogReset(s) == Emit([s EXCEPT !.rst = TRUE], [Blank EXCEPT !.kind = "watchdog"])

TimedInit ==
  /\ Init
  /\ UsesWiFi(dev)
  /\ eeprom = Erased

\* `esp_task_wdt_reset();` where the sketch has it, then
\* `if (WiFi.status() != WL_CONNECTED) connectToWiFi();`
TimedWiFi ==
  /\ pc = "wifi"
  /\ ticks < TimedRounds
  /\ pc' = "mqtt"
  /\ wdtFed' = IF ArmsWatchdog(dev) THEN now ELSE wdtFed
  /\ \E u \in LinkUpAfter :
       LET r == connectToWiFi(S0, transport, u)
       IN  /\ ev' = r.ev
           /\ now' = (now + WIFI_POLL_DELAY * Polls(r.ev)) % Modulus
           /\ transport' = IF transport = "Connected" \/ Polls(r.ev) >= u
                            THEN "Connected" ELSE "Disconnected"
  /\ lastMsg' = NoMsg
  /\ UNCHANGED <<inbox, dev, brokerUp, mqttConnected, brokerWill, retainedOnline,
                 deviceState, timers, ticks, eeprom, otaInProgress, otaUrl,
                 buttonPressed, lastButtonPress, pinLow>>

\* `if (!mqttClient.connected()) connectToMQTT();` with the time the
\* connect call takes when it is made
TimedMqttConnect ==
  /\ pc = "mqtt"
  /\ ~mqttConnected
  /\ \E c \in ConnectTimes :
       LET t == IF transport = "Connected" THEN c ELSE 0
       IN  IF Expired(dev, t)
           THEN Commit(WatchdogReset(S0), pc, timers, now, ticks, buttonPressed,
                       lastButtonPress, NoMsg)
           ELSE Commit(connectToMQTT(S0, dev, transport, brokerUp), AfterMqtt(dev),
                       timers, (now + t) % Modulus, ticks, buttonPressed,
                       lastButtonPress, NoMsg)

\* `if (otaInProgress) performOTAUpdate();` with the time the transfer takes,
\* then `delay(100);`
TimedOTA ==
  /\ pc = "ota"
  /\ IF otaInProgress /\ otaUrl # ""
     THEN \E ret \in OtaOutcomes, x \in TransferTimes :
            LET r == performOTAUpdate(S0, ret, FALSE)
            IN  IF Expired(dev, x)
                THEN Commit(WatchdogReset([S0 EXCEPT !.ev = SubSeq(r.ev, 1, 2)]), pc,
                            timers, now, ticks, buttonPressed, lastButtonPress, NoMsg)
                ELSE Commit(r, FirstStage(dev), timers, (now + x + 100) % Modulus,
                            ticks + 1, buttonPressed, lastButtonPress, NoMsg)
     ELSE Commit(IF otaInProgress THEN performOTAUpdate(S0, "HTTP_UPDATE_FAILED", FALSE)
                 ELSE S0,
                 FirstStage(dev), timers, (now + 100) % Modulus, ticks + 1,
                 buttonPressed, lastButtonPress, NoMsg)

TimedNext ==
  \/ Setup
  \/ TimedWiFi
  \/ TimedMqttConnect
  \/ LoopMqttPoll(TimedMessages)
  \/ LoopButton
  \/ LoopSchedWithin({}, 0)
  \/ TimedOTA
  \/ LinkDrop
  \/ LinkUp

TimedSpec == TimedInit /\ [][TimedNext]_vars

\* ------------------------------------------------------------------------
\* Properties
\* ------------------------------------------------------------------------
\* the kinds of the effects of the last step, in order
Kinds(log) == [i \in 1..Len(log) |-> log[i].kind]

\* the last step was a session connect that succeeded
ConnectedNow == ev # <<>> /\ ev[1].kind = "connect" /\ ev[1].sent

\* C1: on every device type a session connect registers the last will
\* (`online` topic, online=false, QoS 1, retained) with the connect itself,
\* so that whenever the session is up the broker holds that will
C1_WillHeldWhileSessionUp == mqttConnected => brokerWill = LastWill

\* C2: a successful session connect is followed, in the same call and in
\* this order, by: subscribe `command` (and `ota` where supported), publish
\* online=true retained on `online`, publish the status snapshot retained on
\* `status` with online=true; nothing else is published in between
C2_ConnectAnnounces ==
  ConnectedNow =>
    LET k == IF SupportsOTA(dev) THEN 2 ELSE 1
    IN  /\ Kinds(ev) = <<"connect">> \o [i \in 1..k |-> "subscribe"] \o <<"pub", "pub">>
        /\ ev[2].topic = "command"
        /\ SupportsOTA(dev) => ev[3].topic = "ota"
        /\ ev[k + 2].topic = "online" /\ ev[k + 2].retained /\ ev[k + 2].online
        /\ ev[k + 2].sent
        /\ ev[k + 3].topic = "status" /\ ev[k + 3].retained /\ ev[k + 3].online
        /\ ev[k + 3].sent /\ ev[k + 3].status = "snapshot"

\* a reconnect: the light's brightness 0 can only come from a command
\* received over an earlier session
C2_Reconnected == ConnectedNow /\ dev = "light" /\ deviceState.brightness = 0

\* C3: a publish issued while the session is down is dropped, not queued:
\* a message reaches the broker only if the session was up when it was
\* produced, and a session connect delivers nothing but its own two
\* announcements
C3_DroppedNotQueued ==
  /\ \A i \in 1..Len(ev) : ev[i].kind = "pub" => (ev[i].sent <=> ev[i].up)
  /\ ConnectedNow =>
       Cardinality({i \in 1..Len(ev) : ev[i].kind = "pub" /\ ev[i].sent}) = 2

\* an OTA status and a state message were issued with the session down
C3_DroppedSeen ==
  /\ \E i \in 1..Len(ev) : ev[i].kind = "pub" /\ ~ev[i].up /\ ev[i].topic = "status"
  /\ ~mqttConnected

\* C4: the session is never up, and a session connect is never attempted,
\* while the transport is not Connected
C4_SessionNeedsTransport ==
  /\ mqttConnected => transport = "Connected"
  /\ \A i \in 1..Len(ev) : ev[i].kind = "connect" => ev[i].transport = "Connected"

\* the last step was a session connect that the broker did not accept
ConnectFailedNow == ev # <<>> /\ ev[1].kind = "connect" /\ ~ev[1].sent

Connects(log) == {i \in 1..Len(log) : log[i].kind = "connect"}

\* the last step was the power being cycled from outside
PowerLost == \E i \in 1..Len(ev) : ev[i].kind = "reset"

\* broker reachable: it answers, the transport is up and the device is
\* left powered
Reachable == brokerUp /\ transport = "Connected" /\ ~PowerLost

\* C5: a failed session connect leaves the session down; every loop
\* iteration that finds the transport connected and the session down makes
\* exactly one connect attempt; and once the broker stays reachable the
\* session comes up (again and again after every loss) with online=true
\* published
C5_FailedConnectRetried ==
  /\ [](ConnectFailedNow => ~mqttConnected /\ ~deviceState.online)
  /\ [][(pc = "mqtt" /\ pc' # "mqtt" /\ ~PowerLost'
           /\ transport = "Connected" /\ ~mqttConnected)
          => Cardinality(Connects(ev')) = 1]_vars
  /\ (<>[]Reachable => []<>(mqttConnected /\ retainedOnline = "true"))

\* a connect was refused although the transport was connected
C5_RefusedSeen == ConnectFailedNow /\ transport = "Connected" /\ ~brokerUp

\* the message of the last step got through deserializeJson
Parsed == lastMsg # NoMsg /\ ~DeserializationError(dev, lastMsg)

Has(log, k) == \E i \in 1..Len(log) : log[i].kind = k

NoPublish(log) == ~Has(log, "pub")

\* C6: inbound messages are routed by exact topic match: `command` only to
\* the command handler, `ota` only to the OTA handler; a message on any
\* other topic changes no device state, OTA job state or NV storage and
\* publishes nothing
C6_RoutedByExactTopic ==
  [][lastMsg' # NoMsg =>
       /\ lastMsg'.topic = "command" =>
            /\ ~Has(ev', "handleOTACommand")
            /\ Parsed' => Has(ev', "handleCommand")
       /\ lastMsg'.topic = "ota" =>
            /\ ~Has(ev', "handleCommand")
            /\ (Parsed' /\ SupportsOTA(dev)) => Has(ev', "handleOTACommand")
       /\ lastMsg'.topic \notin {"command", "ota"} =>
            /\ Kinds(ev') = <<"parse">>
            /\ deviceState' = deviceState
            /\ eeprom' = eeprom
            /\ otaInProgress' = otaInProgress
            /\ otaUrl' = otaUrl]_vars

\* an update request and a toggle arrived on a foreign topic
C6_ForeignTopicSeen ==
  /\ lastMsg.topic = "other"
  /\ lastMsg.action = "update"
  /\ Parsed
  /\ mqttConnected

\* C7: a malformed payload, or one longer than the fixed maximum, on
\* `command` or `ota` is dropped: device state, OTA job and NV storage are
\* unchanged, nothing is published and the loop goes on
C7_BadPayloadDropped ==
  [][(/\ lastMsg'.topic \in {"command", "ota"}
      /\ (~lastMsg'.wf \/ lastMsg'.len > Capacity(dev)))
       => /\ deviceState' = deviceState
          /\ eeprom' = eeprom
          /\ otaInProgress' = otaInProgress
          /\ otaUrl' = otaUrl
          /\ NoPublish(ev')
          /\ pc' # "boot"]_vars

\* the command strings each device type's handleCommand compares against
RecognisedCommands(d) ==
  IF d = "light" THEN {"set_power", "set_brightness", "set_color", "toggle",
                       "get_status", "restart"}
  ELSE IF d = "switch" THEN {"set_power", "toggle", "get_status", "restart"}
  ELSE IF d = "gateway" THEN {"set_power", "toggle", "get_status", "get_sensors"}
  ELSE {"get_sensors", "get_status", "restart"}

UnknownCommand ==
  Parsed /\ lastMsg.topic = "command" /\ lastMsg.command \notin RecognisedCommands(dev)

\* C8: a well-formed command whose command string the device type does not
\* recognise changes no DeviceState field and publishes nothing
C8_UnknownCommandNoOp ==
  [][UnknownCommand' => deviceState' = deviceState /\ NoPublish(ev')]_vars

\* the sensor node received `toggle`, the light an unheard-of command
C8_UnknownSeen ==
  /\ UnknownCommand
  /\ \/ dev = "sensor" /\ lastMsg.command = "toggle"
     \/ dev = "light" /\ lastMsg.command = "frobnicate" /\ deviceState.power

\* the state-mutating commands of each device type
MutatingCommands(d) ==
  IF d = "light" THEN {"set_power", "set_brightness", "set_color", "toggle"}
  ELSE IF d \in {"gateway", "switch"} THEN {"set_power", "toggle"}
  ELSE {}

MutatingCommand ==
  Parsed /\ lastMsg.topic = "command" /\ lastMsg.command \in MutatingCommands(dev)

SameValues(e, ds) ==
  /\ e.power = ds.power
  /\ e.brightness = ds.brightness
  /\ e.r = ds.color_r /\ e.g = ds.color_g /\ e.b = ds.color_b

SetBrightness ==
  Parsed /\ dev = "light" /\ lastMsg.topic = "command" /\ lastMsg.command = "set_brightness"

\* C10: set_brightness{brightness:N} leaves the stored brightness at N
\* clamped into [0,100], and the clamped value is what is published and
\* persisted
C10_BrightnessClamped ==
  [][SetBrightness' =>
       LET n == lastMsg'.brightness
           c == IF n < 0 THEN 0 ELSE IF n > 100 THEN 100 ELSE n
       IN  /\ deviceState'.brightness = c
           /\ \E i \in 1..Len(ev') :
                ev'[i].kind = "pub" /\ ev'[i].topic = "state" /\ ev'[i].brightness = c
           /\ eeprom'[1] = c]_vars

\* brightness 300 was received and 100 stored
C10_ClampedSeen ==
  /\ SetBrightness
  /\ lastMsg.brightness = 300
  /\ deviceState.brightness = 100
  /\ eeprom[1] = 100

\* C11: persistence round trip: for every in-range state (power, and on the
\* light brightness 0..100 and colour channels 0..255), saving it,
\* restarting and loading yields the state that was saved
C11_RoundTrip ==
  pc = "loaded" => SameValues(ev[1], deviceState) /\ ~deviceState.online

\* a dimmed, coloured light state came back after the restart although the
\* EEPROM held another state before the save
C11_RoundTripSeen ==
  /\ pc = "loaded"
  /\ dev = "light"
  /\ deviceState.power /\ deviceState.brightness = 37 /\ deviceState.color_g = 255
  /\ ev[1].brightness = 37

\* a toggle on the command topic got through deserializeJson on a device
\* that has a power output
ToggleCommand ==
  Parsed /\ PersistsState(dev) /\ lastMsg.topic = "command" /\ lastMsg.command = "toggle"

\* C12: end-to-end toggle: with the session up and power=false, a toggle on
\* the command topic makes the device publish a state message with
\* power=true in the loop iteration that receives it, and a restart after
\* it restores power=true (every run of setup() restores what NV holds)
C12_ToggleEndToEnd ==
  /\ [][(ToggleCommand' /\ mqttConnected /\ mqttConnected' /\ ~deviceState.power) =>
          /\ \E i \in 1..Len(ev') :
                /\ ev'[i].kind = "pub" /\ ev'[i].topic = "state"
                /\ ev'[i].sent /\ ev'[i].power
          /\ deviceState'.power
          /\ loadStateFromEEPROM(DefaultState, eeprom', dev).power]_vars
  /\ [][(pc = "boot" /\ pc' # "boot") =>
          deviceState'.power = loadStateFromEEPROM(DefaultState, eeprom, dev).power]_vars

\* a toggle switched the gateway on over the session: the state message
\* with power=true went out and byte 0 of the EEPROM holds 1
C12_ToggleSeen ==
  /\ ToggleCommand /\ dev = "gateway" /\ mqttConnected
  /\ deviceState.power
  /\ Len(ev) = 5 /\ ev[4].topic = "state" /\ ev[4].sent /\ ev[4].power
  /\ eeprom[0] = 1

\* a restart command got through deserializeJson on a device whose
\* handleCommand has the restart branch
RestartCommand ==
  /\ Parsed /\ lastMsg.topic = "command" /\ lastMsg.command = "restart"
  /\ "restart" \in RecognisedCommands(dev)

\* C13: the restart command publishes online=false retained on `online`
\* and then restarts; nothing else runs between the publish and the
\* restart: no persist, no periodic task, no OTA step
C13_RestartPublishesOffline ==
  [][RestartCommand' =>
       /\ Kinds(ev') = <<"parse", "handleCommand", "pub", "restart">>
       /\ ev'[3].topic = "online" /\ ev'[3].retained /\ ~ev'[3].online
       /\ ev'[3].sent = ev'[3].up
       /\ eeprom' = eeprom
       /\ pc' = "boot"
       /\ deviceState' = DefaultState /\ timers' = ZeroTimers
       /\ ~otaInProgress' /\ ~mqttConnected']_vars

\* the light, dimmed to 0 by an earlier command, restarted on command: the
\* offline message went out and the EEPROM still holds the dimmed state
C13_RestartSeen ==
  /\ RestartCommand /\ dev = "light"
  /\ pc = "boot"
  /\ ev[3].sent /\ retainedOnline = "false"
  /\ eeprom[1] = 0

\* an update request got through deserializeJson on a device with OTA
UpdateRequest ==
  /\ Parsed /\ SupportsOTA(dev)
  /\ lastMsg.topic = "ota" /\ lastMsg.action = "update"

Terminals == {"success", "failed", "no_update"}

\* positions in the log of the status messages with the given texts
StatusAt(log, texts) ==
  {i \in 1..Len(log) : log[i].kind = "pub" /\ log[i].topic = "status"
                       /\ log[i].status \in texts}

\* the step just taken was performOTAUpdate() on a pending job
OtaRan == Has(ev, "httpUpdate")

\* what one run of the job has to look like
OtaRunReported(log) ==
  /\ Len(log) >= 3
  /\ Kinds(SubSeq(log, 1, 3)) = <<"pub", "httpUpdate", "pub">>
  /\ StatusAt(log, {"updating"}) = {1}
  /\ StatusAt(log, Terminals) = {3}
  /\ log[3].status = TerminalStatus(log[2].status)

C15_SecondRequestRejected ==
  /\ [][(UpdateRequest' /\ inbox # NoMsg) =>
          otaInProgress' = otaInProgress /\ otaUrl' = otaUrl]_vars
  /\ [][(UpdateRequest' /\ otaInProgress) =>
          otaInProgress' = otaInProgress /\ otaUrl' = otaUrl]_vars

\* the step being taken is loop()'s OTA block with the flag set
OtaStep == pc = "ota" /\ otaInProgress /\ pc' # "ota" /\ ~Has(ev', "reset")

\* C16: an OTA run restarts the process only on the success outcome and
\* only after the terminal status has been published; on the failed and
\* no-update outcomes there is no restart, the job is back to Idle (flag
\* false, url empty) at the end of that loop iteration and the loop goes on
C16_RestartOnlyOnSuccess ==
  [][OtaStep =>
       /\ Has(ev', "restart") <=>
            \E i \in 1..Len(ev') :
              ev'[i].kind = "httpUpdate" /\ ev'[i].status = "HTTP_UPDATE_OK"
       /\ Has(ev', "restart") =>
            /\ Kinds(ev') = <<"pub", "httpUpdate", "pub", "restart">>
            /\ ev'[3].topic = "status" /\ ev'[3].status = "success"
            /\ pc' = "boot"
       /\ ~Has(ev', "restart") =>
            /\ pc' = FirstStage(dev)
            /\ ~otaInProgress' /\ otaUrl' = ""
            /\ deviceState' = deviceState /\ eeprom' = eeprom]_vars

\* a transfer found no update: the device was not restarted, the job is
\* Idle again and the loop is at its first block with the session still up
C16_NoUpdateSeen ==
  /\ OtaRan /\ ev[2].status = "HTTP_UPDATE_NO_UPDATES"
  /\ ev[3].status = "no_update" /\ ev[3].sent
  /\ pc = "wifi" /\ mqttConnected
  /\ ~otaInProgress /\ otaUrl = ""

\* number of invocations of the OTA transport in a log
Transfers(log) == Cardinality({i \in 1..Len(log) : log[i].kind = "httpUpdate"})

\* C17: a failed transfer is never retried by the device itself: the
\* transport is invoked only for a pending job, at most once per step; a
\* job becomes pending only by an update message; and every invocation,
\* failed ones included, ends the job. So every invocation uses up one
\* update message, and invocations never outnumber update messages
C17_NoAutomaticRetry ==
  /\ [][Transfers(ev') > 0 =>
          /\ Transfers(ev') = 1
          /\ otaInProgress /\ pc = "ota"
          /\ ~otaInProgress' /\ otaUrl' = ""]_vars
  /\ [][(otaInProgress' /\ ~otaInProgress) => UpdateRequest']_vars

\* the switch reported a failed transfer over the session and is Idle
\* again, with nothing waiting to be read
C17_FailedAndIdle ==
  /\ dev = "switch"
  /\ OtaRan /\ ev[2].status = "HTTP_UPDATE_FAILED"
  /\ ev[3].status = "failed" /\ ev[3].sent
  /\ ~otaInProgress /\ inbox = NoMsg

\* a check request got through deserializeJson on a device with OTA
CheckRequest ==
  /\ Parsed /\ SupportsOTA(dev)
  /\ lastMsg.topic = "ota" /\ lastMsg.action = "check"

\* C18: an OTA check never starts an update: the job's flag and url are
\* unchanged, no transfer is invoked, no DeviceState changes, and the only
\* effect is one message on `status` with the current firmware version and
\* the marker "ready_for_update"
C18_CheckOnlyReports ==
  [][CheckRequest' =>
       /\ otaInProgress' = otaInProgress /\ otaUrl' = otaUrl
       /\ deviceState' = deviceState /\ eeprom' = eeprom
       /\ Kinds(ev') = <<"parse", "handleOTACommand", "pub">>
       /\ ev'[3].topic = "status" /\ ev'[3].status = "ready_for_update"
       /\ ev'[3].version = FIRMWARE_VERSION
       /\ ev'[3].sent = mqttConnected'
       /\ pc' = AfterMqtt(dev)]_vars

\* the sensor node answered a check over the session and has no job
C18_CheckAnswered ==
  /\ CheckRequest /\ dev = "sensor"
  /\ ev[3].sent /\ ev[3].version = "1.0.0"
  /\ ~otaInProgress /\ otaUrl = ""
  /\ pc = "sched"

\* the periodic blocks of each sketch in program order: the timer each one
\* tests and sets, its interval, and what it calls
Tasks(d) ==
  IF d \in {"light", "switch"}
  THEN << [timer |-> "lastHeartbeat", interval |-> HeartbeatInterval(d),
           fires |-> <<"online">>],
          [timer |-> "lastStateUpdate", interval |-> StateInterval(d),
           fires |-> <<"state">>] >>
  ELSE IF d = "gateway"
  THEN << [timer |-> "lastSensorRead", interval |-> SensorReadInterval(d),
           fires |-> <<"readSensors">>],
          [timer |-> "lastHeartbeat", interval |-> HeartbeatInterval(d),
           fires |-> <<"online", "state">>] >>
  ELSE << [timer |-> "lastSensorRead", interval |-> SensorReadInterval(d),
           fires |-> <<"readSensors">>],
          [timer |-> "lastPublish", interval |-> SensorPublishInterval(d),
           fires |-> <<"state">>],
          [timer |-> "lastHeartbeat", interval |-> HeartbeatInterval(d),
           fires |-> <<"online">>] >>

\* what a log entry shows of the block that made it
Label(e) == IF e.kind = "pub" THEN e.topic ELSE e.kind

Labels(log) == [i \in 1..Len(log) |-> Label(log[i])]

\* the step being taken is a pass through the periodic blocks
SchedStep == pc = "sched" /\ pc' # "sched" /\ ~Has(ev', "reset")

RECURSIVE FiringsFrom(_, _, _)
\* the calls of the blocks from the i-th on, given which blocks are due
FiringsFrom(tasks, due, i) ==
  IF i > Len(tasks) THEN <<>>
  ELSE (IF due[i] THEN tasks[i].fires ELSE <<>>) \o FiringsFrom(tasks, due, i + 1)

\* the effect a tick has to have when `due` says which blocks are due
TickedAsDue(tasks, due) ==
  /\ Labels(ev') = FiringsFrom(tasks, due, 1)
  /\ \A i \in 1..Len(tasks) :
       timers'[tasks[i].timer] = IF due[i] THEN now' ELSE timers[tasks[i].timer]
  /\ \A k \in DOMAIN timers :
       (\A i \in 1..Len(tasks) : tasks[i].timer # k) => timers'[k] = timers[k]

\* C19: on each tick, every periodic task whose elapsed time
\* (now - last_fire_time, unsigned) strictly exceeds its interval fires
\* exactly once and sets its own last_fire_time to now, however long the
\* stall was; the tasks due in one tick fire in program order; a task that
\* is not due does not fire, and no task's last_fire_time is changed by
\* another task
C19_DueTasksFireOnce ==
  [][SchedStep =>
       LET tasks == Tasks(dev)
           due == [i \in 1..Len(tasks) |->
                     (now' - timers[tasks[i].timer]) % Modulus > tasks[i].interval]
       IN  TickedAsDue(tasks, due)]_vars

\* the sensor node came out of a stall of a minute: read, publish and
\* heartbeat each fired once, in that order, and a tick before that had
\* fired the read alone
C19_AllDueSeen ==
  /\ dev = "sensor" /\ pc = "ota"
  /\ Labels(ev) = <<"readSensors", "state", "online">>
  /\ timers.lastSensorRead = now /\ timers.lastPublish = now /\ timers.lastHeartbeat = now
  /\ now = 65002
  /\ ticks = 2

\* a counter value as a point on the time line: the runs of SchedSpec stay
\* within a fraction of the counter's range around one wrap, so a value in
\* the lower half of the range was read after the wrap
Unwrap(x) == IF x < Modulus \div 2 THEN x + Modulus ELSE x

\* C20: scheduler wraparound: with the counter w bits wide and the elapsed
\* time computed as (now - last_fire_time) mod 2^w, a task fires at a tick
\* exactly when the time that really passed since its last firing exceeds
\* its interval, also when the counter wrapped in between: it fires at the
\* first such tick, not before, and not again on the following ticks
C20_FiresOnceAcrossWrap ==
  [][SchedStep =>
       LET tasks == Tasks(dev)
           due == [i \in 1..Len(tasks) |->
                     Unwrap(now') - Unwrap(timers[tasks[i].timer]) > tasks[i].interval]
       IN  TickedAsDue(tasks, due)]_vars

\* the switch's heartbeat, last fired 29 s before the wrap, fired at the
\* tick 1001 ms after the wrap and not at the tick 100 ms later
C20_WrapSeen ==
  /\ dev = "switch" /\ pc = "ota"
  /\ now = 1101 /\ ticks = 2
  /\ timers.lastHeartbeat = 1001 /\ timers.lastStateUpdate = 1001
  /\ ev = <<>>

\* the step being taken is buttonISR() accepting an edge: nothing else sets
\* the flag
EdgeAccepted == HasButtonISR(dev) /\ ~buttonPressed /\ buttonPressed'

\* the step being taken is the button block of loop() with the flag set
ButtonStep ==
  HasButtonISR(dev) /\ pc = "button" /\ pc' = "sched" /\ buttonPressed

\* C21: the button interrupt handler writes exactly one shared variable,
\* the pressed flag, and nothing else (no field of the device-state record,
\* no other variable of the sketch); the toggle is made by the button
\* block of the main loop, which consumes and clears the flag
C21_IsrWritesOnlyFlag ==
  /\ [][EdgeAccepted =>
          UNCHANGED <<deviceState, timers, lastButtonPress, eeprom, otaInProgress,
                      otaUrl, mqttConnected, retainedOnline, now, pc>>]_vars
  /\ [][ButtonStep =>
          /\ deviceState'.power = ~deviceState.power
          /\ ~buttonPressed']_vars

\* the fields of the state record that commands and the button control
Values(ds) == <<ds.power, ds.brightness, ds.color_r, ds.color_g, ds.color_b>>

\* C22: while the device runs, the DeviceState fields (power, brightness,
\* colour channels) change only in a step that runs the MQTT command
\* handler or the button block of the main loop; no other entry point, the
\* HTTP /control handler included, changes them
C22_OnlyHandlersMutate ==
  [][(Values(deviceState') # Values(deviceState) /\ pc # "boot" /\ pc' # "boot")
       => (Has(ev', "handleCommand") \/ (pc = "button" /\ pc' = "sched"))]_vars

\* C23: NV storage is written only in a step that handles a command or a
\* local button press: no periodic task, no connect or reconnect step and
\* no OTA step writes it
C23_WritesOnlyOnCommandOrButton ==
  [][(Has(ev', "nvwrite") \/ eeprom' # eeprom)
       => \/ Has(ev', "handleCommand")
          \/ (pc = "button" /\ pc' = "sched" /\ Has(ev', "mutate"))]_vars

\* heartbeat and state update fired on the switch while its power differed
\* from the stored byte, and the byte was left as it was
C23_TimerLeftNVAlone ==
  /\ dev = "switch" /\ pc = "ota"
  /\ Labels(ev) = <<"online", "state">>
  /\ deviceState.power # (eeprom[0] = 1)

\* C24: every message the device publishes on its `status` topic (status
\* snapshot, OTA "updating" and terminal statuses, OTA check reply) and
\* every message it publishes on `online` is published retained
C24_StatusAndOnlineRetained ==
  \A i \in 1..Len(ev) :
    (ev[i].kind = "pub" /\ ev[i].topic \in {"status", "online"}) => ev[i].retained

\* the step being taken ends an iteration of loop()
IterationEnds == pc \notin {"boot", FirstStage(dev)} /\ pc' = FirstStage(dev)

\* what a restart would restore from NV storage
Restored(nv, ds) == Values(loadStateFromEEPROM(ds, nv, dev))

\* C25: at the end of every iteration of the main loop the record in NV
\* storage equals the DeviceState in memory (power, and on the light
\* brightness and colour): a restart at the loop boundary restores exactly
\* the state the device had
C25_NVEqualsStateAtLoopEnd ==
  [][IterationEnds => Restored(eeprom', deviceState') = Values(deviceState')]_vars

\* C26: on the smart light each colour channel is within 0..255 in every
\* reachable state, whatever set_color commands were received and
\* whatever was restored from NV storage
C26_ColourInRange ==
  dev = "light" =>
    /\ deviceState.color_r \in 0..255
    /\ deviceState.color_g \in 0..255
    /\ deviceState.color_b \in 0..255

\* values one EEPROM cell can hold
Bytes == 0..255

\* C27: on the smart light brightness is within 0..100 in every reachable
\* state: after every sequence of commands, button presses and HTTP
\* control requests, and at boot, where the restore yields a value in
\* range for every content of the stored byte (erased 0xFF included)
C27_BrightnessInRange ==
  dev = "light" =>
    /\ deviceState.brightness \in 0..100
    /\ pc = "boot" =>
         \A b \in Bytes :
           loadStateFromEEPROM(deviceState, [eeprom EXCEPT ![1] = b], dev).brightness
             \in 0..100

\* the light booted from an erased EEPROM and runs with brightness 100
C27_ErasedRestored ==
  /\ dev = "light" /\ pc = "wifi" /\ ticks = 0
  /\ eeprom[1] = 255
  /\ deviceState.brightness = 100

\* the heartbeat block ran in the step being taken
HeartbeatFired ==
  SchedStep /\ \E i \in 1..Len(ev') : ev'[i].kind = "pub" /\ ev'[i].topic = "online"

\* C28: the `online` field reported in status snapshots is true only while
\* the MQTT session is up, in particular after a heartbeat tick: a
\* heartbeat that fires while the session is down does not leave the field
\* true
C28_OnlineOnlyWhileSessionUp ==
  [][HeartbeatFired => (deviceState'.online => mqttConnected')]_vars

\* the step being taken is buttonISR() accepting an edge, whatever the flag
\* was
EdgeTaken == lastButtonPress' # lastButtonPress

\* C29: on the light and the switch every edge accepted by the interrupt
\* handler gets one power toggle, one state publish and one save of its
\* own from the main loop, wherever the loop is in its test, handling and
\* clearing of the flag: an accepted edge finds the flag clear (an edge
\* accepted while the flag is still set shares the toggle of the edge that
\* set it, or is wiped by the clear that follows the handling), and a set
\* flag is answered by exactly one toggle, publish and save
C29_EveryPressToggles ==
  /\ [][EdgeTaken => ~buttonPressed]_vars
  /\ [][(pc = "handle" /\ pc' = "clear") =>
          /\ deviceState'.power = ~deviceState.power
          /\ Labels(ev') = <<"mutate", "state", "nvwrite">>]_vars

\* the message of the last step was a command that asks for no change of
\* the state: a query, or a command string the device does not know
NonMutatingCommand ==
  /\ Parsed /\ lastMsg.topic = "command"
  /\ \/ lastMsg.command \in {"get_status", "get_sensors"}
     \/ lastMsg.command \notin RecognisedCommands(dev)

\* C30: commands that do not mutate DeviceState (get_status, get_sensors,
\* unrecognised command strings) leave the content of NV storage
\* unchanged, in whatever state they are received
C30_QueriesLeaveNVUnchanged ==
  [][NonMutatingCommand' => eeprom' = eeprom]_vars

\* C31: an OTA run started with an empty url ends at once: the in-progress
\* flag is cleared in that loop iteration, the OTA transport is not
\* invoked, no status is published and the process is not restarted
C31_EmptyUrlEndsRun ==
  [][(OtaStep /\ otaUrl = "") =>
       /\ ~otaInProgress'
       /\ ev' = <<>>
       /\ pc' = FirstStage(dev)
       /\ mqttConnected' = mqttConnected
       /\ deviceState' = deviceState /\ eeprom' = eeprom]_vars

\* the loop reached its OTA block with a job accepted for the empty url
C31_EmptyUrlPending ==
  pc = "ota" /\ otaInProgress /\ otaUrl = "" /\ mqttConnected

\* a `state` message was handed to the broker in the step being taken
StateSent ==
  \E i \in 1..Len(ev') : ev'[i].kind = "pub" /\ ev'[i].topic = "state" /\ ev'[i].sent

\* the previous tick of the run fired the state block with the session up:
\* it sent a `state` message, and the session and DeviceState are the same
\* since (nothing in SchedSpec changes them)
StateSentAtLastTick ==
  ticks > 0 /\ timers.lastStateUpdate = now /\ mqttConnected

\* C32: the periodic state update of the light and the switch publishes a
\* `state` message only if DeviceState changed since the previous `state`
\* publish: a tick that follows a tick which published the state, with
\* DeviceState unchanged in between, sends no `state` message
C32_StatePublishedOnlyOnChange ==
  [][(SchedStep /\ HasButtonISR(dev) /\ StateSentAtLastTick
      /\ Values(deviceState') = Values(deviceState))
       => ~StateSent]_vars

\* C33: a transport reconnect attempt terminates: an iteration that finds
\* the link down calls connectToWiFi, which polls the link status at most
\* 20 times; when the link does not come up it returns after 20 polls with
\* the transport still Disconnected, without a restart, and the loop goes
\* on with its next block; the attempt is made again in every iteration
\* that finds the link down
C33_ReconnectTerminates ==
  [][(pc = "wifi" /\ pc' # "wifi" /\ transport # "Connected") =>
       /\ Has(ev', "WiFi.begin")
       /\ Polls(ev') <= 20
       /\ transport' # "Connected" =>
            /\ Polls(ev') = 20
            /\ now' = now + 20 * 500
            /\ pc' = "mqtt"
            /\ ~Has(ev', "restart") /\ ~Has(ev', "watchdog")]_vars

\* the second iteration in a row whose reconnect attempt failed after 20
\* polls
C33_RetriedAfterFailure ==
  /\ pc = "mqtt" /\ transport = "Disconnected"
  /\ Polls(ev) = 20
  /\ ticks = 1 /\ now = 20100

\* C34: on the devices that arm the 30 s watchdog (light, sensor node) the
\* watchdog never expires during a loop iteration that makes progress: an
\* iteration with a failed transport reconnect, a session connect attempt
\* or a blocking OTA transfer runs to its end without a watchdog reset,
\* and an OTA transfer is followed by its terminal status
C34_WatchdogNeverExpires ==
  /\ [][ArmsWatchdog(dev) => ~Has(ev', "watchdog")]_vars
  /\ [][(ArmsWatchdog(dev) /\ Has(ev', "httpUpdate")) =>
          \E i \in 1..Len(ev') :
            ev'[i].kind = "pub" /\ ev'[i].topic = "status" /\ ev'[i].status \in Terminals]_vars
====
